---- MODULE Spec2Model ----
(***************************************************************************)
(* The two MCP tools of server_http.py, get_douyin_download_link and       *)
(* extract_douyin_text, run by a pool of request workers over a process    *)
(* environment that can change while the server runs.  The pipeline        *)
(* module douyin_mcp_server.douyin_api is not part of server_http.py; its  *)
(* stages are modelled after the specification (section 4).                *)
(*                                                                         *)
(* A tool function touches state outside its own locals at one place       *)
(* only, the read of the environment in extract_douyin_text.  The model    *)
(* gives that read an action of its own; the rest of a tool function, the  *)
(* import, the pipeline call and the return or the except clause, is one   *)
(* action, and the stages the call executed are kept in stagesRun.         *)
(*                                                                         *)
(* Strings are sequences of tokens, so that a prefix is a prefix and a     *)
(* concatenation is a concatenation.  The error marker of the source,      *)
(* U+9519 U+8BEF U+FF1A, is the one-token string ErrorMarker.              *)
(***************************************************************************)
EXTENDS Naturals, Sequences, FiniteSets

\* ------------------------------------------------------------------ bounds
NumWorkers == 2

Workers == 1..NumWorkers

\* ------------------------------------------------------------- input sets
\* os.getenv returns None for an unset variable
Unset == "<None>"
\* a local that has not been assigned
Undef == "<undef>"

\* the values the credential takes in the environment
EnvValues == {Unset, "", "sk-1"}
\* the same with a second credential, for the rotation of the credential
RotatedEnvValues == EnvValues \cup {"sk-2"}

\* share_link texts: one with no recognisable link, one holding a short link
NoLinkText == "hello"
LinkText == "7.43 https://v.douyin.com/abc/ copy"
ShareLinks == {NoLinkText, LinkText}

\* the model argument as the caller gives it; Omitted takes the default
Omitted == "<omitted>"
ModelArgs == {Omitted, "paraformer-v1"}

LinkTool == "get_douyin_download_link"
TextTool == "extract_douyin_text"
Tools == {LinkTool, TextTool}

\* ------------------------------------------------------------ the source
\* default of the model parameter of extract_douyin_text
DefaultModel == "paraformer-v2"

EffectiveModel(m) == IF m = Omitted THEN DefaultModel ELSE m

\* f"错误：..." : the marker the text tool's failures begin with
ErrorMarker == <<"ERR:">>

\* "错误：未设置 DASHSCOPE_API_KEY 环境变量，..."
MissingKeyMessage == ErrorMarker \o <<"DASHSCOPE_API_KEY", "not", "set">>

\* "获取下载链接失败"
LinkFailureMessage == <<"get", "download", "link", "failed">>

\* the test `api_key is None` in the place of `not api_key`
IsNone(v) == v = Unset

\* python's truth value of an optional string: None and "" are false
NotTruthy(v) == v = Unset \/ v = ""

\* an except clause for the import's failure alone
CatchesImportError(cls) == cls = "ImportError"

\* the classes `except Exception` catches: every class the import or the
\* pipeline raises derives from Exception
ExceptionClasses ==
    {"ImportError", "NoLinkFound", "NoRedirect", "MetadataUnavailable",
     "DownloadFailed", "ProviderError"}

Catches(cls) == cls \in ExceptionClasses

\* str(e)
Str(e) == e.msg

Raise(cls, msg) == [cls |-> cls, msg |-> msg]

NoExc == [cls |-> "<none>", msg |-> <<>>]

\* the values a tool returns
StrVal(s) == [type |-> "str", val |-> s]
DictVal(d) == [type |-> "dict", val |-> d]
NoVal == [type |-> "undef", val |-> <<>>]

\* {"error": str(e), "message": "获取下载链接失败"}
LinkErrorObject(e) == DictVal([error |-> Str(e), message |-> LinkFailureMessage])

\* the link tool's error object in the place of the prefixed string
TextErrorAsObject(e) == LinkErrorObject(e)

\* f"错误：{str(e)}"
TextErrorString(e) == StrVal(ErrorMarker \o Str(e))

StartsWith(s, p) == Len(s) >= Len(p) /\ SubSeq(s, 1, Len(p)) = p

\* ------------------------------------------- the pipeline's surroundings
\* What the installation and the upstream services answer.  It is fixed
\* during a behaviour (the "same upstream state" of the specification) and
\* differs between behaviours.  Responses after the first failing one are
\* never looked at, so they are kept at their successful value.
HelloWorld == <<"hello", "world">>

AsrResponses ==
    {[ok |-> TRUE, text |-> HelloWorld],
     [ok |-> TRUE, text |-> <<>>],
     [ok |-> FALSE, text |-> <<>>]}

GoodWorld ==
    [module |-> TRUE, redirect |-> "302", metadata |-> "json",
     audio |-> "bytes", asr |-> [ok |-> TRUE, text |-> HelloWorld]]

Worlds ==
    {GoodWorld,
     [GoodWorld EXCEPT !.module = FALSE],
     [GoodWorld EXCEPT !.redirect = "200"],
     [GoodWorld EXCEPT !.metadata = "http_error"],
     [GoodWorld EXCEPT !.audio = "fail"]}
    \cup {[GoodWorld EXCEPT !.asr = a] : a \in AsrResponses}

\* the stages of one pipeline call, in the order of section 4.6
LinkStages == <<"ExtractId", "Resolve", "FetchMetadata">>
TextStages == LinkStages \o <<"AcquireAudio", "Transcribe">>
StagesOf(t) == IF t = LinkTool THEN LinkStages ELSE TextStages

\* every stage but the identifier extractor calls the network
NetworkStages == {"Resolve", "FetchMetadata", "AcquireAudio", "Transcribe"}

\* 4.1: the first substring that is a short link, or Undef
ExtractShortUrl(text) ==
    IF text = LinkText THEN "https://v.douyin.com/abc/" ELSE Undef

\* 4.3: the mapping the link tool returns
VideoMetadata ==
    [videoId |-> "123456", title |-> "t", author |-> "a",
     coverUrl |-> "c", playUrl |-> "https://x.example/play/abc.mp4",
     durationSeconds |-> 12]

\* the outcome of one stage against the world w: it succeeds or it raises
Ok == [ok |-> TRUE, exc |-> NoExc]
Fail(cls) == [ok |-> FALSE, exc |-> Raise(cls, <<cls>>)]

StageOutcome(stage, text, w) ==
    CASE stage = "ExtractId" ->
           IF ExtractShortUrl(text) = Undef THEN Fail("NoLinkFound") ELSE Ok
      [] stage = "Resolve" ->
           IF w.redirect = "302" THEN Ok ELSE Fail("NoRedirect")
      [] stage = "FetchMetadata" ->
           IF w.metadata = "json" THEN Ok ELSE Fail("MetadataUnavailable")
      [] stage = "AcquireAudio" ->
           IF w.audio = "bytes" THEN Ok ELSE Fail("DownloadFailed")
      [] stage = "Transcribe" ->
           IF w.asr.ok /\ w.asr.text # <<>> THEN Ok ELSE Fail("ProviderError")

\* what the pipeline returns when its last stage succeeded
PipelineValue(t, w) ==
    IF t = LinkTool THEN DictVal(VideoMetadata) ELSE StrVal(w.asr.text)

\* The stages from the k-th on run one after the other; the first failure
\* ends the call.  [raised, exc, value, trace]: trace lists the stages run.
RECURSIVE RunStages(_, _, _, _, _)
RunStages(t, k, text, w, trace) ==
    IF k > Len(StagesOf(t))
    THEN [raised |-> FALSE, exc |-> NoExc, value |-> PipelineValue(t, w),
          trace |-> trace]
    ELSE LET stage == StagesOf(t)[k]
             out == StageOutcome(stage, text, w)
         IN  IF out.ok
             THEN RunStages(t, k + 1, text, w, Append(trace, stage))
             ELSE [raised |-> TRUE, exc |-> out.exc, value |-> NoVal,
                   trace |-> Append(trace, stage)]

\* get_download_link(share_link) and extract_text(share_link, api_key, model)
PipelineCall(t, text, w) == RunStages(t, 1, text, w, <<>>)

\* ------------------------------------------------------------ the source
\* The retrying variant of the try block: a failed call is made again.
TryBlockRetrying(t, text, w) ==
    IF ~w.module
    THEN [raised |-> TRUE,
          exc |-> Raise("ImportError", <<"No", "module", "named", "douyin_api">>),
          value |-> NoVal, trace |-> <<>>, imports |-> 1, calls |-> 0]
    ELSE LET first == PipelineCall(t, text, w)
             again == PipelineCall(t, text, w)
         IN  IF first.raised
             THEN [raised |-> again.raised, exc |-> again.exc,
                   value |-> again.value, trace |-> first.trace \o again.trace,
                   imports |-> 1, calls |-> 2]
             ELSE [raised |-> FALSE, exc |-> NoExc, value |-> first.value,
                   trace |-> first.trace, imports |-> 1, calls |-> 1]

\* The try block from the import on: the import statement, then one call of
\* the pipeline.  Either may raise; imports and calls count what was run.
TryBlock(t, text, w) ==
    IF ~w.module
    THEN [raised |-> TRUE,
          exc |-> Raise("ImportError", <<"No", "module", "named", "douyin_api">>),
          value |-> NoVal, trace |-> <<>>, imports |-> 1, calls |-> 0]
    ELSE LET r == PipelineCall(t, text, w)
         IN  [raised |-> r.raised, exc |-> r.exc, value |-> r.value,
              trace |-> r.trace, imports |-> 1, calls |-> 1]

\* what a tool invocation ends with: a value returned to the caller, or an
\* exception no except clause caught (fault)
Returned(v) == [fault |-> FALSE, value |-> v]
Unhandled == [fault |-> TRUE, value |-> NoVal]

\* an except clause that swallows the exception and returns nothing
LinkOutcomeSwallowing(r) ==
    IF ~r.raised THEN Returned(r.value) ELSE Returned(NoVal)

\* get_douyin_download_link: return result / except Exception as e: ...
LinkOutcome(r) ==
    IF ~r.raised THEN Returned(r.value)
    ELSE IF Catches(r.exc.cls) THEN Returned(LinkErrorObject(r.exc))
    ELSE Unhandled

\* a return statement that labels the transcript
TextOutcomeLabelled(r) ==
    IF ~r.raised THEN Returned(StrVal(<<"text:">> \o r.value.val))
    ELSE IF Catches(r.exc.cls) THEN Returned(TextErrorString(r.exc))
    ELSE Unhandled

\* extract_douyin_text: return result / except Exception as e: ...
TextOutcome(r) ==
    IF ~r.raised THEN Returned(r.value)
    ELSE IF Catches(r.exc.cls) THEN Returned(TextErrorString(r.exc))
    ELSE Unhandled

\* ------------------------------------------------------------------ state
VARIABLES
    env,        \* os.environ["DASHSCOPE_API_KEY"], Unset when absent
    world,      \* the installation and the upstream services
    phase,      \* "starting" before uvicorn.run, "serving" after
    warned,     \* the startup warning of __main__ was printed
    pc,         \* each worker's position in its tool function
    tool,       \* the tool a worker runs
    share_link, \* the tool's share_link argument
    modelArg,   \* the tool's model argument, Omitted when not given
    api_key,    \* the local api_key of extract_douyin_text
    result,     \* what the tool returned to its caller
    callArgs,   \* the arguments of the worker's pipeline call
    calls,      \* how often the worker called the pipeline
    imports,    \* how often the worker ran the import statement
    envReads,   \* how often the worker read the environment
    stagesRun   \* the stages the worker's pipeline calls executed, in order

vars ==
    <<env, world, phase, warned, pc, tool, share_link, modelArg, api_key,
      result, callArgs, calls, imports, envReads, stagesRun>>

\* the arguments of an invocation
inputs == <<tool, share_link, modelArg>>

\* what the try block from the import on leaves behind
effects == <<result, callArgs, calls, imports, stagesRun>>

NoArgs == [share_link |-> Undef, api_key |-> Undef, model |-> Undef]

Init ==
    /\ env \in EnvValues
    /\ world \in Worlds
    /\ phase = "starting"
    /\ warned = FALSE
    /\ pc = [i \in Workers |-> "idle"]
    /\ tool = [i \in Workers |-> Undef]
    /\ share_link = [i \in Workers |-> Undef]
    /\ modelArg = [i \in Workers |-> Undef]
    /\ api_key = [i \in Workers |-> Undef]
    /\ result = [i \in Workers |-> NoVal]
    /\ callArgs = [i \in Workers |-> NoArgs]
    /\ calls = [i \in Workers |-> 0]
    /\ imports = [i \in Workers |-> 0]
    /\ envReads = [i \in Workers |-> 0]
    /\ stagesRun = [i \in Workers |-> <<>>]

\* --------------------------------------------------------- the process
\* __main__: the startup check only prints a warning; nothing is kept
Startup ==
    /\ phase = "starting"
    /\ warned' = NotTruthy(env)
    /\ phase' = "serving"
    /\ UNCHANGED <<env, world, pc, inputs, api_key, envReads, effects>>

\* the process environment changes while the server runs
SetEnv(v) ==
    /\ v # env
    /\ env' = v
    /\ UNCHANGED <<world, phase, warned, pc, inputs, api_key, envReads, effects>>

\* the protocol layer dispatches a tool invocation to an idle worker
Invoke(i, t, s, m) ==
    /\ phase = "serving"
    /\ pc[i] = "idle"
    /\ tool' = [tool EXCEPT ![i] = t]
    /\ share_link' = [share_link EXCEPT ![i] = s]
    /\ modelArg' = [modelArg EXCEPT ![i] = IF t = TextTool THEN m ELSE Undef]
    /\ pc' = [pc EXCEPT ![i] = IF t = TextTool THEN "getenv" ELSE "try"]
    /\ UNCHANGED <<env, world, phase, warned, api_key, envReads, effects>>

\* Worker i leaves its try block: r is what the block did with the pipeline
\* arguments args, o what the tool function ends with.
Leave(i, r, args, o) ==
    /\ result' = [result EXCEPT ![i] = o.value]
    /\ callArgs' = [callArgs EXCEPT ![i] = IF r.calls > 0 THEN args ELSE NoArgs]
    /\ calls' = [calls EXCEPT ![i] = r.calls]
    /\ imports' = [imports EXCEPT ![i] = r.imports]
    /\ stagesRun' = [stagesRun EXCEPT ![i] = r.trace]
    /\ pc' = [pc EXCEPT ![i] = IF o.fault THEN "fault" ELSE "done"]

\* the link tool with a module-level result that another worker's pending
\* response overwrites
LinkRunShared(i) ==
    /\ pc[i] = "try" /\ tool[i] = LinkTool
    /\ LET r == TryBlock(LinkTool, share_link[i], world)
           args == [NoArgs EXCEPT !.share_link = share_link[i]]
           others == {j \in Workers \ {i} : pc[j] = "done"}
           o == IF others = {} THEN LinkOutcome(r)
                ELSE Returned(result[CHOOSE j \in others : TRUE])
       IN  Leave(i, r, args, o)
    /\ UNCHANGED <<env, world, phase, warned, inputs, api_key, envReads>>

\* the link tool with the text tool's credential check pasted in
LinkRunKeyed(i) ==
    /\ pc[i] = "try" /\ tool[i] = LinkTool
    /\ LET r == TryBlock(LinkTool, share_link[i], world)
           args == [NoArgs EXCEPT !.share_link = share_link[i]]
           o == IF NotTruthy(env)
                THEN Returned(LinkErrorObject(Raise("ValueError", MissingKeyMessage)))
                ELSE LinkOutcome(r)
       IN  Leave(i, r, args, o)
    /\ UNCHANGED <<env, world, phase, warned, inputs, api_key, envReads>>

\* get_douyin_download_link(share_link), the whole function
LinkRun(i) ==
    /\ pc[i] = "try" /\ tool[i] = LinkTool
    /\ LET r == TryBlock(LinkTool, share_link[i], world)
           args == [NoArgs EXCEPT !.share_link = share_link[i]]
       IN  Leave(i, r, args, LinkOutcome(r))
    /\ UNCHANGED <<env, world, phase, warned, inputs, api_key, envReads>>

\* the credential check decided by what the startup check saw
TextGetenvAtStartup(i) ==
    /\ pc[i] = "getenv" /\ tool[i] = TextTool
    /\ api_key' = [api_key EXCEPT ![i] = IF warned THEN Unset ELSE env]
    /\ envReads' = [envReads EXCEPT ![i] = @ + 1]
    /\ IF warned \/ NotTruthy(env)
       THEN /\ result' = [result EXCEPT ![i] = StrVal(MissingKeyMessage)]
            /\ pc' = [pc EXCEPT ![i] = "done"]
       ELSE /\ result' = result
            /\ pc' = [pc EXCEPT ![i] = "try"]
    /\ UNCHANGED <<env, world, phase, warned, inputs, callArgs, calls,
                   imports, stagesRun>>

\* extract_douyin_text: api_key = os.getenv(...); if not api_key: return ...
TextGetenv(i) ==
    /\ pc[i] = "getenv" /\ tool[i] = TextTool
    /\ api_key' = [api_key EXCEPT ![i] = env]
    /\ envReads' = [envReads EXCEPT ![i] = @ + 1]
    /\ IF NotTruthy(env)
       THEN /\ result' = [result EXCEPT ![i] = StrVal(MissingKeyMessage)]
            /\ pc' = [pc EXCEPT ![i] = "done"]
       ELSE /\ result' = result
            /\ pc' = [pc EXCEPT ![i] = "try"]
    /\ UNCHANGED <<env, world, phase, warned, inputs, callArgs, calls,
                   imports, stagesRun>>

\* the pipeline call reading the environment again for its credential
TextRunRereading(i) ==
    /\ pc[i] = "try" /\ tool[i] = TextTool
    /\ LET r == TryBlock(TextTool, share_link[i], world)
           args == [share_link |-> share_link[i], api_key |-> env,
                    model |-> EffectiveModel(modelArg[i])]
       IN  Leave(i, r, args, TextOutcome(r))
    /\ UNCHANGED <<env, world, phase, warned, inputs, api_key, envReads>>

\* extract_douyin_text from the import on, with the api_key read before
TextRun(i) ==
    /\ pc[i] = "try" /\ tool[i] = TextTool
    /\ LET r == TryBlock(TextTool, share_link[i], world)
           args == [share_link |-> share_link[i], api_key |-> api_key[i],
                    model |-> EffectiveModel(modelArg[i])]
       IN  Leave(i, r, args, TextOutcome(r))
    /\ UNCHANGED <<env, world, phase, warned, inputs, api_key, envReads>>

\* the protocol layer sends the tool's result; the worker is free again
Finish(i) ==
    /\ pc[i] = "done"
    /\ pc' = [pc EXCEPT ![i] = "idle"]
    /\ tool' = [tool EXCEPT ![i] = Undef]
    /\ share_link' = [share_link EXCEPT ![i] = Undef]
    /\ modelArg' = [modelArg EXCEPT ![i] = Undef]
    /\ api_key' = [api_key EXCEPT ![i] = Undef]
    /\ result' = [result EXCEPT ![i] = NoVal]
    /\ callArgs' = [callArgs EXCEPT ![i] = NoArgs]
    /\ calls' = [calls EXCEPT ![i] = 0]
    /\ imports' = [imports EXCEPT ![i] = 0]
    /\ envReads' = [envReads EXCEPT ![i] = 0]
    /\ stagesRun' = [stagesRun EXCEPT ![i] = <<>>]
    /\ UNCHANGED <<env, world, phase, warned>>

\* every step but a change of the environment
Serve ==
    \/ Startup
    \/ \E i \in Workers, t \in Tools, s \in ShareLinks, m \in ModelArgs :
         Invoke(i, t, s, m)
    \/ \E i \in Workers : LinkRun(i)
    \/ \E i \in Workers : TextGetenv(i)
    \/ \E i \in Workers : TextRun(i)
    \/ \E i \in Workers : Finish(i)

Next ==
    \/ Serve
    \/ \E v \in EnvValues : SetEnv(v)

Spec == Init /\ [][Next]_vars

\* The credential is rotated between two values while the server runs;
\* every upstream service answers.
InitRotation ==
    /\ Init
    /\ world = GoodWorld

NextRotation ==
    \/ Serve
    \/ \E v \in RotatedEnvValues : SetEnv(v)

SpecRotation == InitRotation /\ [][NextRotation]_vars

\* ------------------------------------------------------------ properties
TextWorkers == {i \in Workers : tool[i] = TextTool}
LinkWorkers == {i \in Workers : tool[i] = LinkTool}

\* the network calls a worker's invocation made
NetCalls(i) ==
    Cardinality({k \in DOMAIN stagesRun[i] : stagesRun[i][k] \in NetworkStages})

\* s is the sequence t cut after some element
IsPrefix(s, t) == Len(s) <= Len(t) /\ s = SubSeq(t, 1, Len(s))

\* the value is one of the tool's error values
IsLinkError(v) == v.type = "dict" /\ DOMAIN v.val = {"error", "message"}
IsTextError(v) == v.type = "str" /\ StartsWith(v.val, ErrorMarker)

\* C1: an extract_text invocation that found no credential (the variable
\* unset or empty) has returned the missing-credential message, and in that
\* invocation the pipeline was neither imported nor called, no stage ran and
\* no network call was made.
C1_MissingCredentialFirst ==
    \A i \in TextWorkers :
        api_key[i] \in {Unset, ""} =>
            /\ pc[i] = "done"
            /\ result[i] = StrVal(MissingKeyMessage)
            /\ imports[i] = 0 /\ calls[i] = 0
            /\ stagesRun[i] = <<>> /\ NetCalls(i) = 0

C1_Witness ==
    \E i \in TextWorkers :
        /\ pc[i] = "done" /\ api_key[i] = "" /\ share_link[i] = LinkText
        /\ result[i] = StrVal(MissingKeyMessage)

\* C2: a get_download_link invocation never ends in an unhandled fault, and
\* what it returns is the pipeline's mapping unchanged when the import and
\* every stage succeeded, and otherwise an object with exactly the keys error
\* (the failure's text) and message (the fixed failure message).
C2_LinkAlwaysReturns ==
    \A i \in LinkWorkers :
        /\ pc[i] # "fault"
        /\ pc[i] = "done" =>
             LET r == PipelineCall(LinkTool, share_link[i], world)
             IN  IF world.module /\ ~r.raised
                 THEN result[i] = r.value
                 ELSE /\ result[i].type = "dict"
                      /\ DOMAIN result[i].val = {"error", "message"}
                      /\ result[i].val.message = LinkFailureMessage
                      /\ result[i].val.error =
                           IF world.module THEN r.exc.msg
                           ELSE <<"No", "module", "named", "douyin_api">>

C2_Witness ==
    \E i \in LinkWorkers :
        /\ pc[i] = "done" /\ world.module
        /\ result[i] = DictVal([error |-> <<"NoRedirect">>,
                                message |-> LinkFailureMessage])

\* C3: an extract_text invocation never ends in an unhandled fault; it
\* returns a string, and when the credential was missing, the pipeline
\* module failed to load or a stage raised, the string begins with the
\* error marker.
C3_TextAlwaysString ==
    \A i \in TextWorkers :
        /\ pc[i] # "fault"
        /\ pc[i] = "done" =>
             /\ result[i].type = "str"
             /\ (\/ api_key[i] \in {Unset, ""}
                 \/ ~world.module
                 \/ PipelineCall(TextTool, share_link[i], world).raised)
                  => StartsWith(result[i].val, ErrorMarker)

C3_Witness ==
    \E i \in TextWorkers :
        /\ pc[i] = "done" /\ api_key[i] = "sk-1"
        /\ result[i] = StrVal(<<"ERR:", "DownloadFailed">>)

\* C4: with a credential configured and every earlier stage succeeding,
\* extract_text returns exactly the text the transcription service
\* returned; when the service returns an empty or an error response the
\* result is a non-empty string beginning with the error marker.
C4_TranscriptExactly ==
    \A i \in TextWorkers :
        (/\ pc[i] \in {"done", "fault"}
         /\ api_key[i] \notin {Unset, "", Undef}
         /\ share_link[i] = LinkText
         /\ world.module /\ world.redirect = "302"
         /\ world.metadata = "json" /\ world.audio = "bytes")
        => IF world.asr.ok /\ world.asr.text # <<>>
           THEN pc[i] = "done" /\ result[i] = StrVal(world.asr.text)
           ELSE /\ pc[i] = "done"
                /\ result[i].type = "str"
                /\ result[i].val # <<>>
                /\ StartsWith(result[i].val, ErrorMarker)

C4_Witness ==
    \E i \in TextWorkers :
        /\ pc[i] = "done" /\ calls[i] = 1
        /\ stagesRun[i] = TextStages
        /\ result[i] = StrVal(<<"hello", "world">>)

\* C5: one invocation of either tool imports and calls the pipeline at most
\* once and runs every stage at most once: no stage is entered again after
\* a failure.
C5_NoRetry ==
    \A i \in Workers :
        /\ calls[i] <= 1 /\ imports[i] <= 1
        /\ \A k, l \in DOMAIN stagesRun[i] :
             stagesRun[i][k] = stagesRun[i][l] => k = l

C5_Witness ==
    \E i \in Workers :
        /\ pc[i] = "done" /\ calls[i] = 1
        /\ stagesRun[i] = <<"ExtractId", "Resolve", "FetchMetadata">>
        /\ IsLinkError(result[i])

\* C6: the stages an invocation ran are a beginning of its tool's order
\* ExtractId, Resolve, FetchMetadata (then AcquireAudio, Transcribe for the
\* text tool); every stage but the last one run succeeded; when the last one
\* run failed, or the order was not run to its end, the invocation ended
\* in its tool's error value.
C6_StageOrder ==
    \A i \in Workers :
        tool[i] # Undef =>
            LET order == IF tool[i] = LinkTool
                         THEN <<"ExtractId", "Resolve", "FetchMetadata">>
                         ELSE <<"ExtractId", "Resolve", "FetchMetadata",
                                "AcquireAudio", "Transcribe">>
                n == Len(stagesRun[i])
                StageOk(k) == StageOutcome(stagesRun[i][k], share_link[i], world).ok
            IN  /\ IsPrefix(stagesRun[i], order)
                /\ \A k \in 1..n : k < n => StageOk(k)
                /\ (pc[i] = "done" /\ (n < Len(order) \/ ~StageOk(n))) =>
                     IF tool[i] = LinkTool THEN IsLinkError(result[i])
                     ELSE IsTextError(result[i])
                /\ pc[i] # "fault"

C6_Witness ==
    \E i \in LinkWorkers :
        /\ pc[i] = "done"
        /\ stagesRun[i] = <<"ExtractId", "Resolve">>
        /\ IsLinkError(result[i])

\* what an invocation returns when it runs alone
Alone(t, s, key, w) ==
    IF t = TextTool /\ key \in {Unset, ""}
    THEN StrVal(MissingKeyMessage)
    ELSE LET r == PipelineCall(t, s, w)
             e == IF w.module THEN r.exc
                  ELSE Raise("ImportError", <<"No", "module", "named", "douyin_api">>)
         IN  IF w.module /\ ~r.raised THEN r.value
             ELSE IF t = LinkTool
                  THEN DictVal([error |-> e.msg, message |-> LinkFailureMessage])
                  ELSE StrVal(ErrorMarker \o e.msg)

\* C7: whatever the other workers do meanwhile, the result of a finished
\* invocation is the one it produces running alone with the same arguments,
\* the same credential and the same upstream responses.
C7_Independent ==
    \A i \in Workers :
        pc[i] = "done" =>
            result[i] = Alone(tool[i], share_link[i], api_key[i], world)

C7_Witness ==
    \E i, j \in Workers :
        /\ i # j /\ pc[i] = "done" /\ pc[j] = "done"
        /\ tool[i] = LinkTool /\ share_link[i] = LinkText
        /\ share_link[j] = NoLinkText
        /\ result[i] = DictVal(VideoMetadata)
        /\ result[i] # result[j]

\* C8: an extract_text invocation reads the credential from the environment
\* as it is when the invocation runs, and decides on that value, whatever
\* the startup check saw; the link tool never reads the credential.
C8_ReadAtCallTime ==
    /\ [](\A i \in LinkWorkers : envReads[i] = 0 /\ api_key[i] = Undef)
    /\ [][\A i \in Workers :
            envReads'[i] = envReads[i] + 1 =>
                /\ api_key'[i] = env
                /\ (pc'[i] = "done") = (env \in {Unset, ""})
                /\ (pc'[i] = "try") = (env \notin {Unset, ""})]_vars

C8_Witness ==
    /\ warned
    /\ \E i \in TextWorkers :
         pc[i] = "done" /\ calls[i] = 1 /\ envReads[i] = 1 /\ api_key[i] = "sk-1"

\* C9: two get_download_link invocations with the same share_link return
\* the same result, whatever ran before or between them and however the
\* environment changed.
C9_LinkIdempotent ==
    \A i, j \in LinkWorkers :
        (pc[i] = "done" /\ pc[j] = "done" /\ share_link[i] = share_link[j])
            => result[i] = result[j]

C9_Witness ==
    \E i, j \in LinkWorkers :
        /\ i # j /\ pc[i] = "done" /\ pc[j] = "done"
        /\ share_link[i] = LinkText /\ share_link[j] = LinkText
        /\ result[i] = DictVal(VideoMetadata)

\* C10: the pipeline's extract_text is called only with a non-empty
\* credential, the one the invocation read at its check, with the share_link
\* unchanged and the model given (paraformer-v2 when none is given); the
\* invocation reads the environment once, so that the environment's value at
\* the time of the call does not matter.
C10_CallArguments ==
    \A i \in TextWorkers :
        /\ envReads[i] <= 1
        /\ calls[i] > 0 =>
             /\ envReads[i] = 1
             /\ callArgs[i].api_key = api_key[i]
             /\ api_key[i] \in {"sk-1", "sk-2"}
             /\ callArgs[i].share_link = share_link[i]
             /\ callArgs[i].model =
                  IF modelArg[i] = Omitted THEN "paraformer-v2" ELSE modelArg[i]

C10_Witness ==
    \E i \in TextWorkers :
        /\ pc[i] = "done" /\ calls[i] = 1
        /\ modelArg[i] = Omitted /\ callArgs[i].model = "paraformer-v2"
        /\ callArgs[i].api_key = "sk-1" /\ env = "sk-2"

====
